---- MODULE Spec2Model ----
(***************************************************************************)
(* Model of cmd/detect/main.go: the buildpack "detect" step that scans the *)
(* Go files of a package for an exported function with a supported         *)
(* CloudEvents signature and appends a build plan naming it.               *)
(*                                                                         *)
(* Strings are TLA+ strings handled character by character (Len, SubSeq,   *)
(* \o), so that strings.Replace, strings.Split, strings.HasSuffix and      *)
(* filepath.Clean are computed the way the Go library computes them.       *)
(***************************************************************************)
EXTENDS Integers, Sequences, FiniteSets, TLC

VARIABLES
    pc,            \* position of main: "start", "config", "glob", "loop"
                   \* (the range statement), "check" (a file was read), "exit"
    nargs,         \* len(os.Args)
    envConfig,     \* EnvConfig after envconfig.Process
    goMod,         \* ./go.mod: [exists, lines]
    goPackage,     \* main's goPackage (line 128-131)
    fullGoPackage, \* main's fullGoPackage (line 132-135)
    detector,      \* catalog held by detect.NewDetector(validFunctions)
    nGoFiles,      \* number of *.go files in the package directory
    nFiles,        \* len(files) returned by filepath.Glob
    i,             \* number of files the range loop has taken so far
    cur,           \* the file the loop is processing
    outcomes,      \* per checked file: what the loop body made of it
    reported,      \* the FunctionDetails handed to writePlan
    plan,          \* what this run appended to the plan file
    planWrites,    \* number of successful planFile.WriteString calls
    exitCode       \* os.Exit status, -1 while running

vars == <<pc, nargs, envConfig, goMod, goPackage, fullGoPackage, detector,
          nGoFiles, nFiles, i, cur, outcomes, reported, plan, planWrites, exitCode>>

\* ------------------------------------------------------------------ bounds
MaxFiles == 3
MaxDecls == 2
MaxArity == 2

\* ------------------------------------------------------- string functions
\* strings.Index restricted to positions >= k; 0 when s has no sub from k on.
IndexFrom(s, sub, k) ==
    LET hits == {j \in k..(Len(s) - Len(sub) + 1) :
                    SubSeq(s, j, j + Len(sub) - 1) = sub}
    IN  IF hits = {} THEN 0
        ELSE CHOOSE j \in hits : \A h \in hits : j <= h

Index(s, sub) == IndexFrom(s, sub, 1)

\* strings.Replace(s, old, new, 1): the first occurrence only.
Replace1(s, old, new) ==
    LET k == Index(s, old)
    IN  IF k = 0 THEN s
        ELSE SubSeq(s, 1, k - 1) \o new \o SubSeq(s, k + Len(old), Len(s))

HasSuffix(s, suffix) ==
    /\ Len(s) >= Len(suffix)
    /\ SubSeq(s, Len(s) - Len(suffix) + 1, Len(s)) = suffix

\* strings.Split(s, sep) for a one-character separator: the pieces between
\* consecutive separators, empty pieces included.
Split(s, sep) ==
    LET cuts == {j \in 1..Len(s) : SubSeq(s, j, j) = sep} \cup {0, Len(s) + 1}
    IN  [n \in 1..(Cardinality(cuts) - 1) |->
            LET from == CHOOSE j \in cuts :
                            Cardinality({h \in cuts : h < j}) = n - 1
                to == CHOOSE j \in cuts :
                            Cardinality({h \in cuts : h < j}) = n
            IN  SubSeq(s, from + 1, to - 1)]

RECURSIVE Join(_, _)
Join(parts, sep) ==
    IF Len(parts) = 0 THEN ""
    ELSE IF Len(parts) = 1 THEN parts[1]
    ELSE parts[1] \o sep \o Join(Tail(parts), sep)

RECURSIVE CleanElems(_, _, _)
\* The element loop of filepath.Clean: drop empty and "." elements, let ".."
\* remove the element before it, keep a leading ".." only when not rooted.
CleanElems(elems, out, rooted) ==
    IF Len(elems) = 0 THEN out
    ELSE LET e == Head(elems)
             rest == Tail(elems)
         IN  IF e = "" \/ e = "." THEN CleanElems(rest, out, rooted)
             ELSE IF e = ".." THEN
                  IF Len(out) > 0 /\ out[Len(out)] /= ".."
                  THEN CleanElems(rest, SubSeq(out, 1, Len(out) - 1), rooted)
                  ELSE IF rooted THEN CleanElems(rest, out, rooted)
                  ELSE CleanElems(rest, Append(out, e), rooted)
             ELSE CleanElems(rest, Append(out, e), rooted)

\* filepath.Clean on a slash-separated path.
Clean(path) ==
    IF path = "" THEN "."
    ELSE LET rooted == SubSeq(path, 1, 1) = "/"
             body == Join(CleanElems(Split(path, "/"), <<>>, rooted), "/")
         IN  IF rooted THEN "/" \o body
             ELSE IF body = "" THEN "."
             ELSE body

UpperCase ==
    {"A", "B", "C", "D", "E", "F", "G", "H", "I", "J", "K", "L", "M",
     "N", "O", "P", "Q", "R", "S", "T", "U", "V", "W", "X", "Y", "Z"}

\* ast.IsExported: the name begins with an upper-case letter.
IsExported(name) == Len(name) > 0 /\ SubSeq(name, 1, 1) \in UpperCase

\* Final path segment of an import path: the implicit alias of an import.
LastSegment(path) ==
    LET slashes == {j \in 1..Len(path) : SubSeq(path, j, j) = "/"}
    IN  IF slashes = {} THEN path
        ELSE LET last == CHOOSE j \in slashes : \A h \in slashes : h <= j
             IN  SubSeq(path, last + 1, Len(path))

\* ------------------------------------------------------ program constants
ceImport == "github.com/cloudevents/sdk-go/v2"
ceProtocolImport == "github.com/cloudevents/sdk-go/v2/protocol"
contextImport == "context"

planFileFormat ==
    "\n[[provides]]\nname = \"ce-go-function\"\n[[requires]]\nname = \"ce-go-function\"\n[requires.metadata]\npackage = \"PACKAGE\"\nfunction = \"CE_GO_FUNCTION\"\nprotocol = \"CE_PROTOCOL\"\n"

Arg(importPath, name, pointer) ==
    [ImportPath |-> importPath, Name |-> name, Pointer |-> pointer]

eventArg == Arg(ceImport, "Event", FALSE)
eventPtrArg == Arg(ceImport, "Event", TRUE)
contextArg == Arg(contextImport, "Context", FALSE)
resultArg == Arg(ceProtocolImport, "Result", FALSE)
errorArg == Arg("", "error", FALSE)

Sig(in, out) == [In |-> in, Out |-> out]

\* Mutant: func(event.Event) *event.Event loses its Pointer flag.
validFunctionsNoPointer ==
    << Sig(<<eventArg>>, <<>>),
       Sig(<<eventArg>>, <<resultArg>>),
       Sig(<<eventArg>>, <<errorArg>>),
       Sig(<<contextArg, eventArg>>, <<>>),
       Sig(<<contextArg, eventArg>>, <<resultArg>>),
       Sig(<<contextArg, eventArg>>, <<errorArg>>),
       Sig(<<eventArg>>, <<eventArg>>),
       Sig(<<eventArg>>, <<eventPtrArg, resultArg>>),
       Sig(<<eventArg>>, <<eventPtrArg, errorArg>>),
       Sig(<<contextArg, eventArg>>, <<eventPtrArg>>),
       Sig(<<contextArg, eventArg>>, <<eventPtrArg, resultArg>>),
       Sig(<<contextArg, eventArg>>, <<eventPtrArg, errorArg>>) >>

\* Mutant: the last line is a copy of the one before it.
validFunctionsDuplicate ==
    << Sig(<<eventArg>>, <<>>),
       Sig(<<eventArg>>, <<resultArg>>),
       Sig(<<eventArg>>, <<errorArg>>),
       Sig(<<contextArg, eventArg>>, <<>>),
       Sig(<<contextArg, eventArg>>, <<resultArg>>),
       Sig(<<contextArg, eventArg>>, <<errorArg>>),
       Sig(<<eventArg>>, <<eventPtrArg>>),
       Sig(<<eventArg>>, <<eventPtrArg, resultArg>>),
       Sig(<<eventArg>>, <<eventPtrArg, errorArg>>),
       Sig(<<contextArg, eventArg>>, <<eventPtrArg>>),
       Sig(<<contextArg, eventArg>>, <<eventPtrArg, resultArg>>),
       Sig(<<contextArg, eventArg>>, <<eventPtrArg, resultArg>>) >>

validFunctions ==
    << Sig(<<eventArg>>, <<>>),
       Sig(<<eventArg>>, <<resultArg>>),
       Sig(<<eventArg>>, <<errorArg>>),
       Sig(<<contextArg, eventArg>>, <<>>),
       Sig(<<contextArg, eventArg>>, <<resultArg>>),
       Sig(<<contextArg, eventArg>>, <<errorArg>>),
       Sig(<<eventArg>>, <<eventPtrArg>>),
       Sig(<<eventArg>>, <<eventPtrArg, resultArg>>),
       Sig(<<eventArg>>, <<eventPtrArg, errorArg>>),
       Sig(<<contextArg, eventArg>>, <<eventPtrArg>>),
       Sig(<<contextArg, eventArg>>, <<eventPtrArg, resultArg>>),
       Sig(<<contextArg, eventArg>>, <<eventPtrArg, errorArg>>) >>

\* ------------------------------------------- the detect package (library)
\* A type as written in a declaration, before resolution.
TypeRef(alias, name, pointer) ==
    [alias |-> alias, name |-> name, pointer |-> pointer]

\* One import line; alias "" means the import is not renamed.
Import(alias, path) == [alias |-> alias, path |-> path]

ImportAlias(imp) == IF imp.alias /= "" THEN imp.alias ELSE LastSegment(imp.path)

\* Import Resolver: the path the alias stands for in this file, "" if none.
ResolveAlias(imports, alias) ==
    IF alias = "" THEN ""
    ELSE LET hits == {k \in 1..Len(imports) : ImportAlias(imports[k]) = alias}
         IN  IF hits = {} THEN ""
             ELSE imports[CHOOSE k \in hits : \A j \in hits : j <= k].path

ResolveType(imports, ref) ==
    Arg(ResolveAlias(imports, ref.alias), ref.name, ref.pointer)

\* Shape Builder: the declaration's signature, every type resolved, in order.
BuildSignature(imports, decl) ==
    Sig([k \in 1..Len(decl.params) |-> ResolveType(imports, decl.params[k])],
        [k \in 1..Len(decl.results) |-> ResolveType(imports, decl.results[k])])

\* Matcher: the signature equals an entry of the detector's catalog.
Matches(catalog, sig) == sig \in {catalog[k] : k \in 1..Len(catalog)}

NewDetector(catalog) == catalog

\* Mutant: visibility is not checked.
AcceptedUnexported(catalog, file, k) ==
    Matches(catalog, BuildSignature(file.imports, file.decls[k]))

Accepted(catalog, file, k) ==
    /\ IsExported(file.decls[k].name)
    /\ Matches(catalog, BuildSignature(file.imports, file.decls[k]))

NoDetails == [Name |-> "", Package |-> "", Signature |-> Sig(<<>>, <<>>)]

\* Mutant: the scan keeps the last accepted declaration instead of the first.
CheckFileLast(catalog, file) ==
    IF file.malformed
    THEN [err |-> TRUE, found |-> FALSE, deets |-> NoDetails]
    ELSE IF \E k \in 1..Len(file.decls) : Accepted(catalog, file, k)
    THEN LET k == CHOOSE k \in 1..Len(file.decls) :
                      /\ Accepted(catalog, file, k)
                      /\ \A j \in (k + 1)..Len(file.decls) :
                            ~Accepted(catalog, file, j)
         IN  [err |-> FALSE, found |-> TRUE,
              deets |-> [Name |-> file.decls[k].name,
                         Package |-> file.package,
                         Signature |->
                             BuildSignature(file.imports, file.decls[k])]]
    ELSE [err |-> FALSE, found |-> FALSE, deets |-> NoDetails]

\* Detector.CheckFile: a parse error, or the first accepted declaration in
\* source order, or nothing.
CheckFile(catalog, file) ==
    IF file.malformed
    THEN [err |-> TRUE, found |-> FALSE, deets |-> NoDetails]
    ELSE IF \E k \in 1..Len(file.decls) : Accepted(catalog, file, k)
    THEN LET k == CHOOSE k \in 1..Len(file.decls) :
                      /\ Accepted(catalog, file, k)
                      /\ \A j \in 1..(k - 1) : ~Accepted(catalog, file, j)
         IN  [err |-> FALSE, found |-> TRUE,
              deets |-> [Name |-> file.decls[k].name,
                         Package |-> file.package,
                         Signature |->
                             BuildSignature(file.imports, file.decls[k])]]
    ELSE [err |-> FALSE, found |-> FALSE, deets |-> NoDetails]

\* ------------------------------------------------------------- the inputs
SeqsUpTo(S, n) == UNION {[1..k -> S] : k \in 0..n}

\* The import block printed by supportedFuncs (lines 21-25).
StdImports ==
    << Import("", contextImport),
       Import("event", ceImport),
       Import("", ceProtocolImport) >>

Decl(name, params, results) ==
    [name |-> name, params |-> params, results |-> results]

SourceFile(malformed, decls) ==
    [malformed |-> malformed, package |-> "widgets",
     imports |-> StdImports, decls |-> decls]

NoFile == SourceFile(FALSE, <<>>)

FuncNames == {"Receiver", "receiver", "CE_PROTOCOL"}

EventRef == TypeRef("event", "Event", FALSE)
EventPtrRef == TypeRef("event", "Event", TRUE)
ContextRef == TypeRef("context", "Context", FALSE)
ResultRef == TypeRef("protocol", "Result", FALSE)
ErrorRef == TypeRef("", "error", FALSE)

\* Declarations of the run model: func(event.Event) and func(*event.Event).
RunDecls ==
    {Decl(n, <<p>>, <<>>) : n \in FuncNames, p \in {EventRef, EventPtrRef}}

RunFiles ==
    {SourceFile(FALSE, ds) : ds \in SeqsUpTo(RunDecls, MaxDecls)}
        \cup {SourceFile(TRUE, <<>>)}

\* Declarations of the shape model: one exported function of any shape.
ShapeRefs == {EventRef, EventPtrRef, ContextRef, ResultRef, ErrorRef}

ShapeFiles ==
    {SourceFile(FALSE, <<Decl("Receiver", ps, rs)>>) :
        ps \in SeqsUpTo(ShapeRefs, MaxArity),
        rs \in SeqsUpTo(ShapeRefs, MaxArity)}

DefaultGoMod ==
    [exists |-> TRUE, lines |-> <<"module example.com/fn", "go 1.14">>]

GoMods ==
    { [exists |-> FALSE, lines |-> <<>>],
      DefaultGoMod,
      [exists |-> TRUE, lines |-> <<"go 1.14">>] }

EnvConfigs ==
    [CEGoPackage : {"./", ".", "pkg/../fn", "["},
     CEGoFunction : {"", "Receiver", "CE_PROTOCOL"},
     CEProtocol : {"http"}]

DefaultEnvConfig ==
    [CEGoPackage |-> "./", CEGoFunction |-> "Receiver", CEProtocol |-> "http"]

\* ---------------------------------------------------------------- helpers
\* readModuleName: the second piece of the first line "module <name> ...".
RECURSIVE ScanModule(_)
ScanModule(lines) ==
    IF Len(lines) = 0 THEN ""
    ELSE LET pieces == Split(Head(lines), " ")
         IN  IF Len(pieces) >= 2 /\ pieces[1] = "module" THEN pieces[2]
             ELSE ScanModule(Tail(lines))

readModuleName(mod) ==
    IF ~mod.exists THEN [err |-> TRUE, name |-> ""]
    ELSE [err |-> FALSE, name |-> ScanModule(mod.lines)]

\* Lines 128-131: goPackage always ends in "/".
NormalizePackage(p) == IF ~HasSuffix(p, "/") THEN p \o "/" ELSE p

\* Lines 132-135.
FullGoPackage(moduleName, pkg) ==
    IF pkg /= "./" THEN moduleName \o "/" \o Clean(pkg) ELSE moduleName

\* filepath.Glob fails only on a malformed pattern: an unclosed "[".
BadPattern(pattern) ==
    /\ Index(pattern, "[") /= 0
    /\ IndexFrom(pattern, "]", Index(pattern, "[") + 2) = 0

\* Mutant: the configured function name is not compared.
NameMatchesAny(goFunction, name) == TRUE

\* Line 172.
NameMatches(goFunction, name) == goFunction = "" \/ goFunction = name

\* Lines 202-204.
RenderPlan(protocol, details) ==
    LET r1 == Replace1(planFileFormat, "PACKAGE", details.Package)
        r2 == Replace1(r1, "CE_GO_FUNCTION", details.Name)
    IN  Replace1(r2, "CE_PROTOCOL", protocol)

Exit(code) == pc' = "exit" /\ exitCode' = code

\* One line of the run's log per checked file: its index, what the loop made
\* of it, and the function name line 169 logged ("" when CheckFile found none).
Checked(res, name) ==
    outcomes' = Append(outcomes, [idx |-> i, res |-> res, name |-> name])

\* ---------------------------------------------------------------- actions
\* Lines 108-111.
CheckArgs ==
    /\ pc = "start"
    /\ IF nargs < 3
       THEN Exit(100)
       ELSE pc' = "config" /\ UNCHANGED exitCode
    /\ UNCHANGED <<nargs, envConfig, goMod, goPackage, fullGoPackage, detector,
                   nGoFiles, nFiles, i, cur, outcomes, reported, plan, planWrites>>

\* Lines 113-142.
Configure ==
    /\ pc = "config"
    /\ LET m == readModuleName(goMod)
       IN  IF m.err
           THEN Exit(100) /\ UNCHANGED <<goPackage, fullGoPackage>>
           ELSE /\ goPackage' = NormalizePackage(envConfig.CEGoPackage)
                /\ fullGoPackage' = FullGoPackage(m.name, goPackage')
                /\ pc' = "glob"
                /\ UNCHANGED exitCode
    /\ UNCHANGED <<nargs, envConfig, goMod, detector, nGoFiles, nFiles, i, cur,
                   outcomes, reported, plan, planWrites>>

\* Lines 146-152.
GlobFiles ==
    /\ pc = "glob"
    /\ IF BadPattern(goPackage \o "*.go")
       THEN Exit(100) /\ UNCHANGED <<nFiles, detector>>
       ELSE /\ nFiles' = nGoFiles
            /\ detector' = NewDetector(validFunctions)
            /\ pc' = "loop"
            /\ UNCHANGED exitCode
    /\ UNCHANGED <<nargs, envConfig, goMod, goPackage, fullGoPackage, nGoFiles,
                   i, cur, outcomes, reported, plan, planWrites>>

\* Lines 154-161: the range statement takes the next file and reads it.
ReadFile(files) ==
    /\ pc = "loop"
    /\ i < nFiles
    /\ i' = i + 1
    /\ \/ Exit(100) /\ UNCHANGED cur                     \* ioutil.ReadFile fails
       \/ \E f \in files : cur' = f /\ pc' = "check" /\ UNCHANGED exitCode
    /\ UNCHANGED <<nargs, envConfig, goMod, goPackage, fullGoPackage, detector,
                   nGoFiles, nFiles, outcomes, reported, plan, planWrites>>

\* Line 181: the files are used up.
NoFunction ==
    /\ pc = "loop"
    /\ i = nFiles
    /\ Exit(100)
    /\ UNCHANGED <<nargs, envConfig, goMod, goPackage, fullGoPackage, detector,
                   nGoFiles, nFiles, i, cur, outcomes, reported, plan, planWrites>>

\* Line 180: the iteration ends. Its file and buffer go out of scope when the
\* loop takes another file; after the last file they are kept for inspection.
EndIteration ==
    /\ pc' = "loop"
    /\ cur' = IF i < nFiles THEN NoFile ELSE cur
    /\ UNCHANGED <<i, exitCode>>

\* Mutant: a file that fails to parse is skipped and the scan goes on.
OnCheckErrorSkip ==
    /\ Checked("error", "")
    /\ EndIteration
    /\ UNCHANGED <<reported, plan, planWrites>>

\* Lines 164-167.
OnCheckError ==
    /\ Checked("error", "")
    /\ Exit(100)
    /\ UNCHANGED <<i, cur, reported, plan, planWrites>>

\* Mutant: a failed WriteString is returned as an error, which main only logs
\* before it exits with status 0.
writePlanReturnsError(protocol, details) ==
    \/ Exit(100) /\ UNCHANGED <<plan, planWrites>>
    \/ Exit(0) /\ UNCHANGED <<plan, planWrites>>
    \/ /\ plan' = plan \o RenderPlan(protocol, details)
       /\ planWrites' = planWrites + 1
       /\ Exit(0)

\* Lines 193-209, then line 177.
writePlan(protocol, details) ==
    \/ Exit(100) /\ UNCHANGED <<plan, planWrites>>   \* os.OpenFile fails
    \/ Exit(100) /\ UNCHANGED <<plan, planWrites>>   \* WriteString fails
    \/ /\ plan' = plan \o RenderPlan(protocol, details)
       /\ planWrites' = planWrites + 1
       /\ Exit(0)

\* Mutant: the plan is written but the loop does not stop at the first match.
OnFoundContinue(details) ==
    /\ Checked("found", details.Name)
    /\ reported' = Append(reported, [details EXCEPT !.Package = fullGoPackage])
    /\ plan' = plan \o RenderPlan(envConfig.CEProtocol,
                                  [details EXCEPT !.Package = fullGoPackage])
    /\ planWrites' = planWrites + 1
    /\ EndIteration

\* Lines 172-178.
OnFound(details) ==
    /\ Checked("found", details.Name)
    /\ reported' = Append(reported, [details EXCEPT !.Package = fullGoPackage])
    /\ writePlan(envConfig.CEProtocol,
                 [details EXCEPT !.Package = fullGoPackage])
    /\ UNCHANGED <<i, cur>>

\* Lines 168-180 when nothing is used from this file.
OnAbsent(details) ==
    /\ Checked("absent", details.Name)
    /\ EndIteration
    /\ UNCHANGED <<reported, plan, planWrites>>

\* Lines 162-179: the body of the loop for the file that was read.
CheckStep ==
    /\ pc = "check"
    /\ LET r == CheckFile(detector, cur)
       IN  IF r.err THEN OnCheckError
           ELSE IF r.found /\ NameMatches(envConfig.CEGoFunction, r.deets.Name)
           THEN OnFound(r.deets)
           ELSE OnAbsent(r.deets)
    /\ UNCHANGED <<nargs, envConfig, goMod, goPackage, fullGoPackage, detector,
                   nGoFiles, nFiles>>

\* ----------------------------------------------------------- specifications
Init ==
    /\ pc = "start"
    /\ nargs \in {2, 3}
    /\ envConfig \in EnvConfigs
    /\ goMod \in GoMods
    /\ goPackage = ""
    /\ fullGoPackage = ""
    /\ detector = <<>>
    /\ nGoFiles \in 0..MaxFiles
    /\ nFiles = 0
    /\ i = 0
    /\ cur = NoFile
    /\ outcomes = <<>>
    /\ reported = <<>>
    /\ plan = ""
    /\ planWrites = 0
    /\ exitCode = -1

Next ==
    \/ CheckArgs
    \/ Configure
    \/ GlobFiles
    \/ ReadFile(RunFiles)
    \/ CheckStep
    \/ NoFunction

Spec == Init /\ [][Next]_vars

\* main is one sequential thread that takes its next step until os.Exit: weak
\* fairness of Next, with "Next is enabled" written out as pc /= "exit" (every
\* other position has a step to take, see C10_ExitStatus).
FairSpec == Spec /\ ([]<>(pc = "exit") \/ []<><<Next>>_vars)

\* The shape model: the default configuration over a directory of one file
\* that holds one exported function of an arbitrary parameter and result shape.
InitShape ==
    /\ Init
    /\ nargs = 3
    /\ envConfig = DefaultEnvConfig
    /\ goMod = DefaultGoMod
    /\ nGoFiles = 1

NextShape ==
    \/ CheckArgs
    \/ Configure
    \/ GlobFiles
    \/ ReadFile(ShapeFiles)
    \/ CheckStep
    \/ NoFunction

SpecShape == InitShape /\ [][NextShape]_vars

\* ------------------------------------------------------------ properties
Last(seq) == seq[Len(seq)]

\* Structural equality of two argument lists, position by position.
SameArgs(a, b) ==
    /\ Len(a) = Len(b)
    /\ \A k \in 1..Len(a) :
          /\ a[k].ImportPath = b[k].ImportPath
          /\ a[k].Name = b[k].Name
          /\ a[k].Pointer = b[k].Pointer

SameSig(x, y) == SameArgs(x.In, y.In) /\ SameArgs(x.Out, y.Out)

\* The twelve shapes as supportedFuncs documents them: every input list
\* combined with every output list.
DocumentedIns == { <<eventArg>>, <<contextArg, eventArg>> }

DocumentedOuts ==
    { <<>>, <<resultArg>>, <<errorArg>>, <<eventPtrArg>>,
      <<eventPtrArg, resultArg>>, <<eventPtrArg, errorArg>> }

DocumentedShapes == {Sig(in, out) : in \in DocumentedIns, out \in DocumentedOuts}

\* Declaration k of the file is exported and has a documented shape.
Eligible(file, k) ==
    /\ IsExported(file.decls[k].name)
    /\ \E d \in DocumentedShapes :
          SameSig(BuildSignature(file.imports, file.decls[k]), d)

EligibleNamed(file, name) ==
    \E k \in 1..Len(file.decls) :
        Eligible(file, k) /\ file.decls[k].name = name

nameFilter == envConfig.CEGoFunction

\* C1: files are checked strictly in the given order, every file before the
\* last checked one yielded absent, a found or failed file ends the run at
\* once, and the reported function is the one found in the last checked file.
C1_OrderedFirstResult ==
    /\ \A k \in 1..Len(outcomes) : outcomes[k].idx = k
    /\ \A k \in 1..(Len(outcomes) - 1) : outcomes[k].res = "absent"
    /\ Len(outcomes) <= i /\ i <= nFiles
    /\ pc = "loop" => Len(outcomes) = i
    /\ (Len(outcomes) > 0 /\ Last(outcomes).res /= "absent")
          => pc = "exit" /\ Len(outcomes) = i
    /\ Len(reported) > 0
          => /\ Len(reported) = 1
             /\ Last(outcomes).res = "found"
             /\ Last(outcomes).name = reported[1].Name

\* Scenario C: three files, the first two absent, the third one reported.
C1_Witness ==
    /\ pc = "exit"
    /\ exitCode = 0
    /\ nFiles = 3
    /\ Len(outcomes) = 3
    /\ outcomes[1].res = "absent"
    /\ outcomes[2].res = "absent"
    /\ outcomes[3].res = "found"
    /\ reported[1].Name = cur.decls[1].name

\* C2: a parse error ends the run with status 100 at that file, with no plan
\* written and nothing reported, and a malformed file is never turned into
\* absent or into a found function.
C2_ParseErrorFatal ==
    /\ (Len(outcomes) > 0 /\ Last(outcomes).res = "error")
          => /\ pc = "exit"
             /\ exitCode = 100
             /\ Len(outcomes) = i
             /\ plan = ""
             /\ planWrites = 0
             /\ reported = <<>>
    /\ \A k \in 1..(Len(outcomes) - 1) : outcomes[k].res /= "error"
    /\ (pc = "exit" /\ cur.malformed)
          => /\ Last(outcomes).res = "error"
             /\ Last(outcomes).name = ""

\* The second of three files is malformed: the third is never checked.
C2_Witness ==
    /\ pc = "exit"
    /\ exitCode = 100
    /\ cur.malformed
    /\ nFiles = 3
    /\ i = 2
    /\ Len(outcomes) = 2
    /\ outcomes[1].res = "absent"
    /\ outcomes[2].res = "error"

\* The step of the loop body on a file that has no eligible declaration of
\* the configured name.
C3_FilterStep ==
    (/\ pc = "check"
     /\ ~cur.malformed
     /\ nameFilter /= ""
     /\ ~EligibleNamed(cur, nameFilter))
        => /\ Last(outcomes').res = "absent"
           /\ pc' = "loop"
           /\ reported' = reported
           /\ plan' = plan

\* C3: with a non-empty name filter, a file with no eligible declaration of
\* that name yields absent and the loop moves on without writing; a function
\* of another name is never handed to the plan writer.
C3_NameFilter ==
    /\ [][C3_FilterStep]_vars
    /\ [](\A k \in 1..Len(reported) :
              nameFilter /= "" => reported[k].Name = nameFilter)

\* A file had a supported function of another name and was passed over.
C3_Witness ==
    /\ pc = "exit"
    /\ exitCode = 100
    /\ nameFilter /= ""
    /\ Len(outcomes) = 2
    /\ outcomes[1].res = "absent"
    /\ outcomes[2].res = "absent"
    /\ outcomes[2].name /= ""
    /\ outcomes[2].name /= nameFilter
    /\ EligibleNamed(cur, outcomes[2].name)
    /\ ~EligibleNamed(cur, nameFilter)

\* The step of the loop body on a file of one exported declaration.
C4_ShapeStep ==
    (pc = "check" /\ ~cur.malformed /\ Len(cur.decls) = 1
        /\ IsExported(cur.decls[1].name))
        => LET sig == BuildSignature(cur.imports, cur.decls[1])
               documented == \E d \in DocumentedShapes : SameSig(sig, d)
           IN  /\ documented <=> Last(outcomes').res = "found"
               /\ documented
                     => \E d \in DocumentedShapes :
                           /\ SameSig(sig, d)
                           /\ Last(reported').Signature = d

\* C4: an exported declaration is found exactly when its resolved signature
\* is structurally equal to one of the twelve documented shapes, and the
\* signature reported for it is that shape.
C4_ExactShapeMatch == [][C4_ShapeStep]_vars

\* func(context.Context, event.Event) (*event.Event, error) was detected.
C4_Witness ==
    /\ pc = "exit"
    /\ Len(reported) = 1
    /\ reported[1].Signature =
          Sig(<<contextArg, eventArg>>, <<eventPtrArg, errorArg>>)
    /\ cur.decls[1].params = <<ContextRef, EventRef>>
    /\ cur.decls[1].results = <<EventPtrRef, ErrorRef>>

\* The step of the loop body on a file with no exported declaration.
C5_UnexportedStep ==
    (/\ pc = "check"
     /\ ~cur.malformed
     /\ \A k \in 1..Len(cur.decls) : ~IsExported(cur.decls[k].name))
        => /\ Last(outcomes').res = "absent"
           /\ Last(outcomes').name = ""
           /\ reported' = reported

\* C5: a function that is not exported is never found and never reported, and
\* a file whose documented-shape functions are all unexported yields absent.
C5_NeverUnexported ==
    /\ [][C5_UnexportedStep]_vars
    /\ [](\A k \in 1..Len(outcomes) :
              outcomes[k].name = "" \/ IsExported(outcomes[k].name))
    /\ [](\A k \in 1..Len(reported) : IsExported(reported[k].Name))

\* Scenario B happened: a file holding only an unexported func(event.Event)
\* was checked and the loop went on.
C5_Witness ==
    /\ pc = "exit"
    /\ exitCode = 100
    /\ Len(outcomes) = 1
    /\ outcomes[1].res = "absent"
    /\ outcomes[1].name = ""
    /\ Len(cur.decls) = 1
    /\ cur.decls[1].name = "receiver"
    /\ cur.decls[1].params = <<EventRef>>

\* C6: with an empty name filter the function reported for a file is its
\* first eligible declaration in source order, and every file passed over
\* before it had no eligible declaration at all.
C6_FirstInSourceOrder ==
    (nameFilter = "" /\ Len(reported) > 0)
        => /\ \E k \in 1..Len(cur.decls) :
                 /\ Eligible(cur, k)
                 /\ \A j \in 1..(k - 1) : ~Eligible(cur, j)
                 /\ reported[1].Name = cur.decls[k].name
                 /\ reported[1].Signature =
                       BuildSignature(cur.imports, cur.decls[k])
           /\ \A k \in 1..(Len(outcomes) - 1) : outcomes[k].name = ""

\* Two eligible declarations of different names in one file: the first won.
C6_Witness ==
    /\ nameFilter = ""
    /\ exitCode = 0
    /\ Len(cur.decls) = 2
    /\ Eligible(cur, 1)
    /\ Eligible(cur, 2)
    /\ cur.decls[1].name /= cur.decls[2].name
    /\ reported[1].Name = cur.decls[1].name

\* C7: the catalog holds exactly twelve pairwise distinct signatures, they
\* are the documented combinations, and the detector's copy never changes.
C7_CatalogFixed ==
    /\ [](/\ Len(validFunctions) = 12
          /\ \A a, b \in 1..Len(validFunctions) :
                a /= b => ~SameSig(validFunctions[a], validFunctions[b])
          /\ {validFunctions[k] : k \in 1..Len(validFunctions)}
                = DocumentedShapes
          /\ pc \in {"loop", "check"} => detector = validFunctions)
    /\ [][detector /= <<>> => detector' = detector]_vars

C7_Witness ==
    /\ pc = "exit"
    /\ exitCode = 0
    /\ Len(detector) = 12
    /\ \E k \in 1..Len(detector) : detector[k] = reported[1].Signature

\* The plan record writePlan documents for a package, function and protocol.
PlanRecord(package, function, protocol) ==
    "\n[[provides]]\nname = \"ce-go-function\"\n[[requires]]\nname = \"ce-go-function\"\n[requires.metadata]\npackage = \""
        \o package \o "\"\nfunction = \"" \o function
        \o "\"\nprotocol = \"" \o protocol \o "\"\n"

moduleRoot == readModuleName(goMod).name

\* C8: the plan written for a detected function holds the module root (plus
\* "/" and the cleaned subpath unless the subpath is "./") as package, the
\* function's name as function, and the configured protocol as protocol.
C8_Descriptor ==
    (pc = "exit" /\ exitCode = 0)
        => /\ reported[1].Package /= cur.package
           /\ plan = PlanRecord(IF goPackage = "./" THEN moduleRoot
                                ELSE moduleRoot \o "/" \o Clean(goPackage),
                                reported[1].Name,
                                envConfig.CEProtocol)

\* The step of the loop body on a file that has an eligible declaration of
\* the configured name.
C9_FilterStep ==
    (/\ pc = "check"
     /\ ~cur.malformed
     /\ nameFilter /= ""
     /\ EligibleNamed(cur, nameFilter))
        => /\ Last(outcomes').res = "found"
           /\ Last(reported').Name = nameFilter

C10_ExitStatus ==
    /\ pc \in {"start", "config", "glob", "loop", "check", "exit"}
    /\ i <= nFiles
    /\ (pc = "exit") <=> (exitCode \in {0, 100})
    /\ exitCode \in {-1, 0, 100}
    /\ planWrites <= 1
    /\ Len(reported) <= 1
    /\ (planWrites = 0) <=> (plan = "")
    /\ exitCode = 0
          => /\ planWrites = 1
             /\ Len(reported) = 1
             /\ nameFilter = "" \/ reported[1].Name = nameFilter
             /\ Last(outcomes).res = "found"
    /\ (pc = "exit" /\ planWrites = 0) => exitCode = 100

\* C10: the run ends, with status 0 or 100; status 0 comes with exactly one
\* plan record written for a function that passed the name filter, every
\* other end is status 100, and no run writes more than one record.
C10_Termination == <>(pc = "exit") /\ []C10_ExitStatus

\* A function was found but the plan could not be written: status 100.
C10_Witness ==
    /\ pc = "exit"
    /\ exitCode = 100
    /\ Len(reported) = 1
    /\ Last(outcomes).res = "found"
    /\ planWrites = 0

====
